---- MODULE Spec2Model ----
(***************************************************************************)
(* Model of etc/scan_jsonl_schema.py: the scan loop of main() over the     *)
(* files found by collect_files(), the five accumulators it fills, and     *)
(* the report it builds from them.                                         *)
(*                                                                         *)
(* A decoded JSON value is a record tagged with its Python class:          *)
(*   NoneType, bool, int, float, str, list (items: a sequence of values),  *)
(*   dict (fields: a function from key strings to values).                 *)
(* A Python dict or defaultdict is a function whose DOMAIN is its key set. *)
(***************************************************************************)
EXTENDS Integers, Sequences, FiniteSets, Bags, TLC

VARIABLES
    pc,                     \* "next_file" | "in_file" | "done" | "aborted":
                            \* position in main()
    files_scanned,
    line_no,                \* enumerate(fh, 1) counter of the open file
    total_lines,
    parse_errors,
    top_keys_by_type,
    message_keys_by_type,
    content_shape_by_type,
    content_block_fields,
    type_occurrence_count,
    report,                 \* the report printed at the end ("none" before)
    lines_read              \* history: the bag of non-blank lines given to json.loads

vars == <<pc, files_scanned, line_no, total_lines, parse_errors,
          top_keys_by_type, message_keys_by_type, content_shape_by_type,
          content_block_fields, type_occurrence_count, report, lines_read>>

----------------------------------------------------------------------------
(* Bounds of the model and constants of the program *)

MaxFiles == 2        \* files in the list returned by collect_files
MaxLines == 2        \* non-blank lines read in one scan
MAX_LINES == 500

----------------------------------------------------------------------------
(* JSON values as json.loads returns them *)

JNone == [cls |-> "NoneType"]
JBool(b) == [cls |-> "bool", b |-> b]
JInt(i) == [cls |-> "int", i |-> i]
JFloat(whole, frac) == [cls |-> "float", whole |-> whole, frac |-> frac]
JStr(s) == [cls |-> "str", s |-> s]
JList(items) == [cls |-> "list", items |-> items]
JDict(fields) == [cls |-> "dict", fields |-> fields]

EmptyDict == [k \in {} |-> {}]

(* isinstance(val, c): bool is a subclass of int *)
isinstance(val, c) ==
    \/ val.cls = c
    \/ val.cls = "bool" /\ c = "int"

(* d.get(k, default) *)
Get(d, k, default) == IF k \in DOMAIN d THEN d[k] ELSE default

type_name(val) ==
    IF val = JNone THEN "null"
    ELSE IF isinstance(val, "bool") THEN "bool"
    ELSE IF isinstance(val, "int") THEN "int"
    ELSE IF isinstance(val, "float") THEN "float"
    ELSE IF isinstance(val, "str") THEN "string"
    ELSE IF isinstance(val, "list") THEN "array"
    ELSE IF isinstance(val, "dict") THEN "object"
    ELSE val.cls

(* str(n) of an int *)
Digits == <<"0", "1", "2", "3", "4", "5", "6", "7", "8", "9">>

RECURSIVE int_str(_)
int_str(n) ==
    IF n < 0 THEN "-" \o int_str(-n)
    ELSE IF n < 10 THEN Digits[n + 1]
    ELSE int_str(n \div 10) \o Digits[(n % 10) + 1]

(* str(val) of a value that is not a str; containers only when empty *)
str(val) ==
    CASE val.cls = "NoneType" -> "None"
      [] val.cls = "bool" -> IF val.b THEN "True" ELSE "False"
      [] val.cls = "int" -> int_str(val.i)
      [] val.cls = "float" -> int_str(val.whole) \o "." \o int_str(val.frac)
      [] val.cls = "list" /\ val.items = <<>> -> "[]"
      [] val.cls = "dict" /\ DOMAIN val.fields = {} -> "{}"

(* x = d.get("type", "__no_type__"); if not isinstance(x, str): x = str(x) *)
discriminant(d) ==
    LET x == Get(d, "type", JStr("__no_type__"))
    IN IF isinstance(x, "str") THEN x.s ELSE str(x)

----------------------------------------------------------------------------
(* The accumulators: defaultdicts, a key exists once it has been indexed *)

(* a slip: the set of labels is replaced, not extended *)
Add1_replacing(acc, k, lab) == (k :> {lab}) @@ acc

(* acc[k].add(lab) on a defaultdict(set) *)
Add1(acc, k, lab) == (k :> (Get(acc, k, {}) \cup {lab})) @@ acc

(* acc[t][k].add(lab) *)
Add2(acc, t, k, lab) == (t :> Add1(Get(acc, t, EmptyDict), k, lab)) @@ acc

(* acc[t][b][k].add(lab) *)
Add3(acc, t, b, k, lab) == (t :> Add2(Get(acc, t, EmptyDict), b, k, lab)) @@ acc

(* for k, v in items.items(): acc[t][k].add(type_name(v)) *)
RECURSIVE add_fields(_, _, _, _)
add_fields(acc, t, items, todo) ==
    IF todo = {} THEN acc
    ELSE LET k == CHOOSE x \in todo : TRUE
         IN add_fields(Add2(acc, t, k, type_name(items[k])), t, items, todo \ {k})

(* for k, v in block.items(): acc[t][btype][k].add(type_name(v)) *)
RECURSIVE add_block_fields(_, _, _, _, _)
add_block_fields(acc, t, btype, items, todo) ==
    IF todo = {} THEN acc
    ELSE LET k == CHOOSE x \in todo : TRUE
         IN add_block_fields(Add3(acc, t, btype, k, type_name(items[k])),
                             t, btype, items, todo \ {k})

(* a slip: the count is assigned, not incremented *)
count_occurrence_assigned(count, entry_type) == (entry_type :> 1) @@ count

(* type_occurrence_count[entry_type] += 1 *)
count_occurrence(count, entry_type) ==
    (entry_type :> (Get(count, entry_type, 0) + 1)) @@ count

(* a slip: a bare string falls through to the last branch *)
block_step_no_plain(cbf, entry_type, block) ==
    IF isinstance(block, "dict")
    THEN add_block_fields(cbf, entry_type, discriminant(block.fields),
                          block.fields, DOMAIN block.fields)
    ELSE Add3(cbf, entry_type, "__other__", "_value", type_name(block))

(* the body of `for block in content` *)
block_step(cbf, entry_type, block) ==
    IF isinstance(block, "dict")
    THEN add_block_fields(cbf, entry_type, discriminant(block.fields),
                          block.fields, DOMAIN block.fields)
    ELSE IF isinstance(block, "str")
    THEN Add3(cbf, entry_type, "__plain_string__", "_value", "string")
    ELSE Add3(cbf, entry_type, "__other__", "_value", type_name(block))

RECURSIVE block_loop(_, _, _)
block_loop(cbf, entry_type, blocks) ==
    IF blocks = <<>> THEN cbf
    ELSE block_loop(block_step(cbf, entry_type, Head(blocks)), entry_type, Tail(blocks))

(* a slip: the shape of an Entry Type is assigned, not added to its set *)
content_step_assigning(a, entry_type, content) ==
    IF isinstance(content, "str")
    THEN [a EXCEPT !.content_shape_by_type = (entry_type :> {"string"}) @@ @]
    ELSE IF isinstance(content, "list")
    THEN [a EXCEPT !.content_shape_by_type = (entry_type :> {"array"}) @@ @,
                   !.content_block_fields = block_loop(@, entry_type, content.items)]
    ELSE IF content # JNone
    THEN [a EXCEPT !.content_shape_by_type = (entry_type :> {type_name(content)}) @@ @]
    ELSE a

(* content = msg.get("content") and the if/elif chain on it; a is the record
   of the accumulators *)
content_step(a, entry_type, content) ==
    IF isinstance(content, "str")
    THEN [a EXCEPT !.content_shape_by_type =
              (entry_type :> (Get(@, entry_type, {}) \cup {"string"})) @@ @]
    ELSE IF isinstance(content, "list")
    THEN [a EXCEPT !.content_shape_by_type =
              (entry_type :> (Get(@, entry_type, {}) \cup {"array"})) @@ @,
                   !.content_block_fields =
              block_loop(@, entry_type, content.items)]
    ELSE IF content # JNone
    THEN [a EXCEPT !.content_shape_by_type =
              (entry_type :> (Get(@, entry_type, {}) \cup {type_name(content)})) @@ @]
    ELSE a

(* the body of `if isinstance(msg, dict)` *)
message_step(a, entry_type, msg) ==
    content_step(
        [a EXCEPT !.message_keys_by_type =
             add_fields(@, entry_type, msg.fields, DOMAIN msg.fields)],
        entry_type, Get(msg.fields, "content", JNone))

(* a slip: a field already known for the Entry Type is skipped *)
top_step_new_fields_only(top, entry_type, obj) ==
    add_fields(top, entry_type, obj.fields,
               DOMAIN obj.fields \ DOMAIN Get(top, entry_type, EmptyDict))

(* for k, v in obj.items(): top_keys_by_type[entry_type][k].add(type_name(v)) *)
top_step(top, entry_type, obj) ==
    add_fields(top, entry_type, obj.fields, DOMAIN obj.fields)

(* lines 103-136 for a decoded mapping obj *)
ingest(a, obj) ==
    LET entry_type == discriminant(obj.fields)
        a1 == [a EXCEPT !.type_occurrence_count = count_occurrence(@, entry_type),
                        !.top_keys_by_type = top_step(@, entry_type, obj)]
        msg == Get(obj.fields, "message", JNone)
    IN IF isinstance(msg, "dict") THEN message_step(a1, entry_type, msg) ELSE a1

(* lines 93-136 for a non-blank line on which json.loads returns line.obj
   (line.ok) or raises JSONDecodeError *)
process_line(a, line) ==
    LET a0 == [a EXCEPT !.total_lines = @ + 1]
    IN IF ~line.ok THEN [a0 EXCEPT !.parse_errors = @ + 1]
       ELSE IF ~isinstance(line.obj, "dict") THEN a0
       ELSE ingest(a0, line.obj)

EmptyRun ==
    [top_keys_by_type |-> EmptyDict,
     message_keys_by_type |-> EmptyDict,
     content_shape_by_type |-> EmptyDict,
     content_block_fields |-> EmptyDict,
     type_occurrence_count |-> EmptyDict,
     total_lines |-> 0,
     parse_errors |-> 0,
     files_scanned |-> 0]

(* the loop of lines 87-136 over the non-blank lines of bag b, started with
   the accumulators and counters of a *)
RECURSIVE scan(_, _)
scan(a, b) ==
    IF b = EmptyBag THEN a
    ELSE LET line == CHOOSE l \in BagToSet(b) : TRUE
         IN scan(process_line(a, line), b (-) SetToBag({line}))

(* the accumulators and counters of the scan as one record *)
Main ==
    [top_keys_by_type |-> top_keys_by_type,
     message_keys_by_type |-> message_keys_by_type,
     content_shape_by_type |-> content_shape_by_type,
     content_block_fields |-> content_block_fields,
     type_occurrence_count |-> type_occurrence_count,
     total_lines |-> total_lines,
     parse_errors |-> parse_errors,
     files_scanned |-> files_scanned]

----------------------------------------------------------------------------
(* The report *)

(* Every string the scan can meet, in Python's order of str (by code point):
   digits < upper case < "_" < lower case *)
StrOrder ==
    <<"1", "2", "None", "True",
      "__no_type__", "__other__", "__plain_string__", "_value",
      "a", "array", "bool", "content", "float", "int", "message", "null",
      "object", "role", "string", "text", "type", "x">>

(* sorted(S) of a set or of the keys of a dict *)
sorted(S) == SelectSeq(StrOrder, LAMBDA s : s \in S)

(* sets_to_lists(d): a set becomes its sorted list, a dict the list of its
   (key, converted value) items in key order; depth is the nesting of dicts
   above the sets *)
RECURSIVE sets_to_lists(_, _)
sets_to_lists(d, depth) ==
    IF depth = 0 THEN sorted(d)
    ELSE LET keys == sorted(DOMAIN d)
         IN [i \in 1..Len(keys) |-> <<keys[i], sets_to_lists(d[keys[i]], depth - 1)>>]

(* sorted(top_keys_by_type.keys()) *)
unique_entry_types(a) == sorted(DOMAIN a.top_keys_by_type)

(* a slip: the sections are read with defaultdict indexing, without the
   `in` tests *)
build_entry_indexing(a, etype) ==
    ("occurrences" :> Get(a.type_occurrence_count, etype, 0))
    @@ ("top_level_fields" :> sets_to_lists(a.top_keys_by_type[etype], 1))
    @@ ("message_fields" :>
            sets_to_lists(Get(a.message_keys_by_type, etype, EmptyDict), 1))
    @@ ("content_shapes" :> sorted(Get(a.content_shape_by_type, etype, {})))
    @@ ("content_block_types" :>
            sets_to_lists(Get(a.content_block_fields, etype, EmptyDict), 2))

(* the body of `for etype in sorted(top_keys_by_type.keys())` *)
build_entry(a, etype) ==
    ("occurrences" :> Get(a.type_occurrence_count, etype, 0))
    @@ ("top_level_fields" :> sets_to_lists(a.top_keys_by_type[etype], 1))
    @@ (IF etype \in DOMAIN a.message_keys_by_type
        THEN "message_fields" :> sets_to_lists(a.message_keys_by_type[etype], 1)
        ELSE EmptyDict)
    @@ (IF etype \in DOMAIN a.content_shape_by_type
        THEN "content_shapes" :> sorted(a.content_shape_by_type[etype])
        ELSE EmptyDict)
    @@ (IF etype \in DOMAIN a.content_block_fields
        THEN "content_block_types" :> sets_to_lists(a.content_block_fields[etype], 2)
        ELSE EmptyDict)

(* lines 152-173; a dict of the report is the list of its items in
   insertion order *)
build_report(a) ==
    LET etypes == sorted(DOMAIN a.top_keys_by_type)
    IN [meta |-> [files_scanned |-> a.files_scanned,
                  total_lines_parsed |-> a.total_lines,
                  parse_errors |-> a.parse_errors,
                  unique_entry_types |-> unique_entry_types(a)],
        entry_types |-> [i \in 1..Len(etypes) |-> <<etypes[i], build_entry(a, etypes[i])>>]]

----------------------------------------------------------------------------
(* The lines a file can hold *)

Absent == [cls |-> "absent"]

(* the dict with key k when v is present, the empty dict otherwise *)
Opt(k, v) == IF v = Absent THEN EmptyDict ELSE k :> v

TypeOpts == {Absent, JStr("a"), JInt(1)}

XOpts == {Absent, JInt(1), JStr("s")}

TopRecords == {JDict(Opt("type", t) @@ Opt("x", x)) : t \in TypeOpts, x \in XOpts}

ContentOpts ==
    {Absent, JStr("hi"), JNone, JInt(3), JBool(TRUE), JDict(EmptyDict),
     JList(<<>>),
     JList(<<JDict(("type" :> JStr("text")) @@ ("text" :> JStr("hi")))>>),
     JList(<<JStr("hello"), JFloat(1, 5)>>),
     JList(<<JDict(EmptyDict), JDict(("type" :> JNone) @@ ("text" :> JNone))>>)}

MessageOpts ==
    {JStr("m"), JDict(("role" :> JStr("user")) @@ ("content" :> JStr("hi")))}
    \cup {JDict(Opt("content", c)) : c \in ContentOpts}

MsgRecords ==
    {JDict(("type" :> JStr("a")) @@ ("message" :> m)) : m \in MessageOpts}
    \cup {JDict("message" :> JDict("content" :>
               JList(<<JDict(("type" :> JStr("text")) @@ ("text" :> JStr("hi")))>>)))}

Records == TopRecords \cup MsgRecords

NonMappings == {JInt(7), JList(<<JStr("x")>>)}

(* json.loads raises line.raises *)
BadLine == [ok |-> FALSE, raises |-> "JSONDecodeError"]

(* lines on which json.loads raises an exception that is no JSONDecodeError:
   nesting deeper than the recursion limit, an integer literal longer than
   the int conversion limit *)
UncaughtLines ==
    {[ok |-> FALSE, raises |-> "RecursionError"],
     [ok |-> FALSE, raises |-> "ValueError"]}

Decoded(v) == [ok |-> TRUE, obj |-> v]

(* the lines that decode to a mapping, and those that decode to another value *)
RecordInputs == {Decoded(obj) : obj \in Records}

NonMappingInputs == {Decoded(v) : v \in NonMappings}

(* lengths of the runs of blank lines a file can hold *)
BlankRuns == {MAX_LINES - 1}

----------------------------------------------------------------------------
(* The scan.  The list `files` has at most MaxFiles entries and ends where
   Report is taken. *)

Init ==
    /\ pc = "next_file"
    /\ files_scanned = 0
    /\ line_no = 0
    /\ total_lines = 0
    /\ parse_errors = 0
    /\ top_keys_by_type = EmptyDict
    /\ message_keys_by_type = EmptyDict
    /\ content_shape_by_type = EmptyDict
    /\ content_block_fields = EmptyDict
    /\ type_occurrence_count = EmptyDict
    /\ report = EmptyDict
    /\ lines_read = EmptyBag

(* the accumulators and counters become those of record a *)
Store(a) ==
    /\ top_keys_by_type' = a.top_keys_by_type
    /\ message_keys_by_type' = a.message_keys_by_type
    /\ content_shape_by_type' = a.content_shape_by_type
    /\ content_block_fields' = a.content_block_fields
    /\ type_occurrence_count' = a.type_occurrence_count
    /\ total_lines' = a.total_lines
    /\ parse_errors' = a.parse_errors

Accumulators ==
    <<top_keys_by_type, message_keys_by_type, content_shape_by_type,
      content_block_fields, type_occurrence_count>>

(* line 84, then open() succeeds *)
OpenFile ==
    /\ pc = "next_file"
    /\ files_scanned < MaxFiles
    /\ files_scanned' = files_scanned + 1
    /\ line_no' = 0
    /\ pc' = "in_file"
    /\ UNCHANGED <<total_lines, parse_errors, Accumulators, report, lines_read>>

(* line 84, then open() raises OSError: the file is skipped with a warning *)
OpenFails ==
    /\ pc = "next_file"
    /\ files_scanned < MaxFiles
    /\ files_scanned' = files_scanned + 1
    /\ UNCHANGED <<pc, line_no, total_lines, parse_errors, Accumulators, report,
                   lines_read>>

(* n consecutive lines that are empty after strip(): `continue` each time *)
ReadBlank(n) ==
    /\ pc = "in_file"
    /\ line_no + n <= MAX_LINES
    /\ line_no' = line_no + n
    /\ UNCHANGED <<pc, files_scanned, total_lines, parse_errors,
                   Accumulators, report, lines_read>>

(* one non-blank line within the cap *)
ReadLine(line) ==
    /\ pc = "in_file"
    /\ line_no < MAX_LINES
    /\ total_lines < MaxLines
    /\ line_no' = line_no + 1
    /\ Store(process_line(Main, line))
    /\ lines_read' = lines_read (+) SetToBag({line})
    /\ UNCHANGED <<pc, files_scanned, report>>

(* json.loads raises JSONDecodeError *)
ReadUndecodable == ReadLine(BadLine)

(* json.loads returns a value that is no dict *)
ReadNonMapping == \E line \in NonMappingInputs : ReadLine(line)

(* json.loads returns a dict *)
ReadRecord == \E line \in RecordInputs : ReadLine(line)

(* json.loads raises an exception that `except json.JSONDecodeError` does not
   catch, nor `except OSError`: it leaves main() after line 93 *)
ReadUncaught ==
    \E line \in UncaughtLines :
        /\ pc = "in_file"
        /\ line_no < MAX_LINES
        /\ total_lines < MaxLines
        /\ line_no' = line_no + 1
        /\ total_lines' = total_lines + 1
        /\ lines_read' = lines_read (+) SetToBag({line})
        /\ pc' = "aborted"
        /\ UNCHANGED <<files_scanned, parse_errors, Accumulators, report>>

(* line 88: the file has a line after line MAX_LINES *)
LineCap ==
    /\ pc = "in_file"
    /\ line_no >= MAX_LINES
    /\ pc' = "next_file"
    /\ line_no' = 0
    /\ UNCHANGED <<files_scanned, total_lines, parse_errors, Accumulators,
                   report, lines_read>>

(* the file ends, or reading it raises OSError *)
EndOfFile ==
    /\ pc = "in_file"
    /\ pc' = "next_file"
    /\ line_no' = 0
    /\ UNCHANGED <<files_scanned, total_lines, parse_errors, Accumulators,
                   report, lines_read>>

(* lines 152-175, after the last file *)
Report ==
    /\ pc = "next_file"
    /\ report' = build_report(Main)
    /\ pc' = "done"
    /\ UNCHANGED <<files_scanned, line_no, total_lines, parse_errors,
                   Accumulators, lines_read>>

Next ==
    \/ OpenFile
    \/ OpenFails
    \/ \E n \in BlankRuns : ReadBlank(n)
    \/ ReadUndecodable
    \/ ReadNonMapping
    \/ ReadRecord
    \/ ReadUncaught
    \/ LineCap
    \/ EndOfFile
    \/ Report

Spec == Init /\ [][Next]_vars

----------------------------------------------------------------------------
(* What the claims are stated in: the records read so far and the terms of
   the data model *)

(* the decoded lines that are mappings, each once *)
RecordLines == {l \in BagToSet(lines_read) : l.ok /\ l.obj.cls = "dict"}

(* the decoded lines that are not mappings *)
NonMappingLines == {l \in BagToSet(lines_read) : l.ok /\ l.obj.cls # "dict"}

(* the lines that did not decode *)
BadLines == {l \in BagToSet(lines_read) : ~l.ok}

(* how many lines of the set S were read, with repetitions *)
Copies(S) == BagCardinality([l \in S |-> lines_read[l]])

(* the string representation of the non-string discriminants of the inputs *)
StringRep(v) ==
    CASE v = JInt(1) -> "1"
      [] v = JNone -> "None"

(* the sentinel rule of the data model for a mapping's `type` *)
SentinelRule(fields) ==
    IF "type" \notin DOMAIN fields THEN "__no_type__"
    ELSE IF fields["type"].cls = "str" THEN fields["type"].s
    ELSE StringRep(fields["type"])

EntryTypeOf(l) == SentinelRule(l.obj.fields)

EntryTypesRead == {EntryTypeOf(l) : l \in RecordLines}

LinesOfType(T) == {l \in RecordLines : EntryTypeOf(l) = T}

(* the record's `message` is a mapping *)
HasMessage(l) ==
    /\ "message" \in DOMAIN l.obj.fields
    /\ l.obj.fields["message"].cls = "dict"

MessageOf(l) == l.obj.fields["message"].fields

(* the record's `message` is a mapping in which `content` is present *)
HasContent(l) == HasMessage(l) /\ "content" \in DOMAIN MessageOf(l)

ContentOf(l) == MessageOf(l)["content"]

(* position of a string in the order of Python strings *)
Rank(x) == CHOOSE i \in 1..Len(StrOrder) : StrOrder[i] = x

(* a list without repetitions in increasing order *)
IsSortedList(q) == \A i, j \in 1..Len(q) : i < j => Rank(q[i]) < Rank(q[j])

Range(q) == {q[i] : i \in 1..Len(q)}

(* the entry of the report for Entry Type T *)
ReportEntry(T) ==
    LET i == CHOOSE j \in 1..Len(report.entry_types) : report.entry_types[j][1] = T
    IN report.entry_types[i][2]

ReportTypes == {report.entry_types[j][1] : j \in 1..Len(report.entry_types)}

----------------------------------------------------------------------------
(* C1: after any sequence of processed lines, the occurrence count of every
   Entry Type T equals the number of mapping records read so far whose
   Entry Type (sentinel rule) is T, whatever fields they had, records with
   no fields included; a type without records has no count. *)
C1_OccurrenceCount ==
    /\ DOMAIN type_occurrence_count = EntryTypesRead
    /\ \A T \in EntryTypesRead : type_occurrence_count[T] = Copies(LinesOfType(T))

(* the empty object and a record of non-string type were read *)
C1_Witness ==
    /\ CopiesIn(Decoded(JDict(EmptyDict)), lines_read) = 1
    /\ Get(type_occurrence_count, "__no_type__", 0) = 1
    /\ Get(type_occurrence_count, "1", 0) = 1

(* C2: in the final report the list unique_entry_types, and the keys of
   entry_types, are the sorted distinct Entry Types of all mapping records
   that were ingested, records that are empty objects included. *)
C2_AllEntryTypesReported ==
    pc = "done" =>
        /\ report.meta.unique_entry_types = sorted(EntryTypesRead)
        /\ ReportTypes = EntryTypesRead

(* C4: no step of the scan removes an Entry Type, field, block type, shape
   or label from an accumulator or decreases a count or a counter. *)
SubDict1(d, e) ==
    /\ DOMAIN d \subseteq DOMAIN e
    /\ \A k \in DOMAIN d : d[k] \subseteq e[k]

SubDict2(d, e) ==
    /\ DOMAIN d \subseteq DOMAIN e
    /\ \A k \in DOMAIN d : SubDict1(d[k], e[k])

SubDict3(d, e) ==
    /\ DOMAIN d \subseteq DOMAIN e
    /\ \A k \in DOMAIN d : SubDict2(d[k], e[k])

Grows ==
    /\ SubDict2(top_keys_by_type, top_keys_by_type')
    /\ SubDict2(message_keys_by_type, message_keys_by_type')
    /\ SubDict1(content_shape_by_type, content_shape_by_type')
    /\ SubDict3(content_block_fields, content_block_fields')
    /\ DOMAIN type_occurrence_count \subseteq DOMAIN type_occurrence_count'
    /\ \A T \in DOMAIN type_occurrence_count :
           type_occurrence_count[T] <= type_occurrence_count'[T]
    /\ files_scanned <= files_scanned'
    /\ total_lines <= total_lines'
    /\ parse_errors <= parse_errors'

C4_Monotone == [][Grows]_vars

(* field x of type "a" was seen with two value types, one after the other *)
C4_Witness ==
    /\ "a" \in DOMAIN top_keys_by_type
    /\ "x" \in DOMAIN top_keys_by_type["a"]
    /\ top_keys_by_type["a"]["x"] = {"int", "string"}
    /\ type_occurrence_count["a"] = 2

----------------------------------------------------------------------------
(* C3: for every split of the files and lines of a finished scan into two
   partitions, scanning each partition separately and merging the two
   aggregates (key-wise union of every set, counts and counters added)
   gives the aggregate and the report of the whole scan; the merge is
   commutative and associative on these aggregates. *)
MergeSets(d, e) ==
    [k \in DOMAIN d \cup DOMAIN e |-> Get(d, k, {}) \cup Get(e, k, {})]

MergeFields(d, e) ==
    [k \in DOMAIN d \cup DOMAIN e |->
        MergeSets(Get(d, k, EmptyDict), Get(e, k, EmptyDict))]

MergeBlocks(d, e) ==
    [k \in DOMAIN d \cup DOMAIN e |->
        MergeFields(Get(d, k, EmptyDict), Get(e, k, EmptyDict))]

MergeCounts(d, e) ==
    [k \in DOMAIN d \cup DOMAIN e |-> Get(d, k, 0) + Get(e, k, 0)]

Merge(a, b) ==
    [top_keys_by_type |-> MergeFields(a.top_keys_by_type, b.top_keys_by_type),
     message_keys_by_type |->
         MergeFields(a.message_keys_by_type, b.message_keys_by_type),
     content_shape_by_type |->
         MergeSets(a.content_shape_by_type, b.content_shape_by_type),
     content_block_fields |->
         MergeBlocks(a.content_block_fields, b.content_block_fields),
     type_occurrence_count |->
         MergeCounts(a.type_occurrence_count, b.type_occurrence_count),
     total_lines |-> a.total_lines + b.total_lines,
     parse_errors |-> a.parse_errors + b.parse_errors,
     files_scanned |-> a.files_scanned + b.files_scanned]

(* the scan of n files that hold the lines of bag b *)
ScanOf(n, b) == scan([EmptyRun EXCEPT !.files_scanned = n], b)

C3_MergeOfPartitions ==
    pc = "done" =>
        \A b1 \in SubBag(lines_read) : \A n1 \in 0..files_scanned :
            LET a1 == ScanOf(n1, b1)
                a2 == ScanOf(files_scanned - n1, lines_read (-) b1)
                m == Merge(a1, a2)
            IN /\ m = Main
               /\ build_report(m) = report
               /\ Merge(a2, a1) = m
               /\ Merge(m, Main) = Merge(a1, Merge(a2, Main))

(* two files; a message of string content and one of array content, both of
   type "a", can be split over two partitions *)
C3_Witness ==
    /\ pc = "done"
    /\ files_scanned = 2
    /\ BagCardinality(lines_read) >= 2
    /\ "a" \in DOMAIN content_shape_by_type
    /\ content_shape_by_type["a"] = {"array", "string"}

(* C5: in the final report an Entry Type none of whose records had a
   `message` that is a mapping has none of the sections message_fields,
   content_shapes, content_block_types; a section that is present is not
   empty and was observed in a record of that Entry Type. *)
Sections == {"message_fields", "content_shapes", "content_block_types"}

C5_SparseSections ==
    pc = "done" =>
        \A T \in ReportTypes :
            LET e == ReportEntry(T)
                L == LinesOfType(T)
            IN /\ (\A l \in L : ~HasMessage(l)) => DOMAIN e \cap Sections = {}
               /\ "message_fields" \in DOMAIN e =>
                      /\ e["message_fields"] # <<>>
                      /\ \E l \in L : HasMessage(l) /\ DOMAIN MessageOf(l) # {}
               /\ "content_shapes" \in DOMAIN e =>
                      /\ e["content_shapes"] # <<>>
                      /\ \E l \in L : HasContent(l)
               /\ "content_block_types" \in DOMAIN e =>
                      /\ e["content_block_types"] # <<>>
                      /\ \E l \in L : /\ HasContent(l)
                                      /\ ContentOf(l).cls = "list"
                                      /\ ContentOf(l).items # <<>>

(* the report has Entry Type "a" with a message section and Entry Type "1"
   without one *)
C5_Witness ==
    /\ pc = "done"
    /\ {"a", "1"} \subseteq ReportTypes
    /\ "message_fields" \in DOMAIN ReportEntry("a")
    /\ DOMAIN ReportEntry("1") \cap Sections = {}

(* C6: a line that does not decode, or decodes to a value that is no
   mapping, leaves the accumulators and the occurrence counts as they were
   and the scan goes on in the file; the accumulators are those of the scan
   of the mapping records alone. *)
NewLines == {l \in BagToSet(lines_read') : CopiesIn(l, lines_read') > CopiesIn(l, lines_read)}

AccumulatorsOf(a) ==
    <<a.top_keys_by_type, a.message_keys_by_type, a.content_shape_by_type,
      a.content_block_fields, a.type_occurrence_count>>

C6_DroppedLineStep ==
    (\E l \in NewLines : ~l.ok \/ l.obj.cls # "dict") =>
        /\ UNCHANGED Accumulators
        /\ pc' = "in_file"

C6_RecordsOnly ==
    Accumulators =
        AccumulatorsOf(scan(EmptyRun, [l \in RecordLines |-> lines_read[l]]))

C6_GracefulDegradation == []C6_RecordsOnly /\ [][C6_DroppedLineStep]_vars

(* a line that is dropped was read and a record was ingested *)
C6_Witness ==
    /\ BadLines \cup NonMappingLines # {}
    /\ type_occurrence_count # EmptyDict

(* C7: a step that reads a non-blank line adds exactly 1 to total_lines, and
   exactly 1 to parse_errors if the line does not decode and 0 otherwise; no
   other step changes either.  So parse_errors <= total_lines, and
   total_lines = parse_errors + decoded non-mapping lines + the sum of the
   occurrence counts. *)
C7_CounterStep ==
    IF NewLines # {}
    THEN /\ total_lines' = total_lines + 1
         /\ parse_errors' = parse_errors + (IF \E l \in NewLines : ~l.ok THEN 1 ELSE 0)
    ELSE UNCHANGED <<total_lines, parse_errors>>

C7_CounterSum ==
    /\ parse_errors <= total_lines
    /\ parse_errors = Copies(BadLines)
    /\ total_lines = parse_errors + Copies(NonMappingLines)
                       + BagCardinality(type_occurrence_count)

C7_Counters == []C7_CounterSum /\ [][C7_CounterStep]_vars

(* an undecodable line and a line of another kind were read *)
C7_Witness ==
    /\ total_lines = 2
    /\ parse_errors = 1
    /\ Copies(NonMappingLines) + BagCardinality(type_occurrence_count) = 1

(* C8: for every ingested record of Entry Type T whose `message` is a mapping
   with key `content` present, a shape is recorded for T: "string" for text,
   "array" for a sequence, the type label otherwise (null, boolean, number,
   object); content that is no sequence adds no content-block entry. *)
ShapeOf(c) ==
    IF c.cls = "str" THEN "string"
    ELSE IF c.cls = "list" THEN "array"
    ELSE type_name(c)

C8_ContentShape ==
    /\ \A l \in RecordLines :
           HasContent(l) =>
               /\ EntryTypeOf(l) \in DOMAIN content_shape_by_type
               /\ ShapeOf(ContentOf(l)) \in content_shape_by_type[EntryTypeOf(l)]
    /\ \A T \in DOMAIN content_block_fields :
           \E l \in LinesOfType(T) : HasContent(l) /\ ContentOf(l).cls = "list"

(* C9: content_block_fields holds exactly what the elements of the
   array-shaped contents read so far contribute: a mapping E its fields'
   labels under block type E["type"] (sentinel rule), a bare string the label
   "string" under field "_value" of "__plain_string__", any other element
   its label under "_value" of "__other__"; content that is no array
   contributes nothing. *)
BlockContribution(T, E) ==
    IF E.cls = "dict"
    THEN {<<T, SentinelRule(E.fields), k, type_name(E.fields[k])>> : k \in DOMAIN E.fields}
    ELSE IF E.cls = "str"
    THEN {<<T, "__plain_string__", "_value", "string">>}
    ELSE {<<T, "__other__", "_value", type_name(E)>>}

Contribution(l) ==
    IF HasContent(l) /\ ContentOf(l).cls = "list"
    THEN UNION {BlockContribution(EntryTypeOf(l), ContentOf(l).items[i]) :
                    i \in 1..Len(ContentOf(l).items)}
    ELSE {}

BlockEntries ==
    UNION {UNION {UNION {{<<T, B, k, lab>> : lab \in content_block_fields[T][B][k]} :
                            k \in DOMAIN content_block_fields[T][B]} :
                     B \in DOMAIN content_block_fields[T]} :
              T \in DOMAIN content_block_fields}

C9_ContentBlocks ==
    /\ BlockEntries = UNION {Contribution(l) : l \in RecordLines}
    /\ \A T \in DOMAIN content_block_fields :
           /\ DOMAIN content_block_fields[T] # {}
           /\ \A B \in DOMAIN content_block_fields[T] :
                  /\ DOMAIN content_block_fields[T][B] # {}
                  /\ \A k \in DOMAIN content_block_fields[T][B] :
                         content_block_fields[T][B][k] # {}

(* a bare string, a float and a typed block were read as elements of the
   contents of records of type "a" *)
C9_Witness ==
    /\ "a" \in DOMAIN content_block_fields
    /\ {"__plain_string__", "__other__", "text"} \subseteq DOMAIN content_block_fields["a"]
    /\ content_block_fields["a"]["__other__"]["_value"] = {"float"}

(* C10: for every Entry Type T and field k the top-level set for (T, k) is
   the set of labels of the values of k in the ingested records of type T;
   k is absent when no record of T had it, T when no record of T had a
   field; a set that is present is not empty; the report lists each set
   sorted, without repetitions. *)
FieldsOfType(T) == UNION {DOMAIN l.obj.fields : l \in LinesOfType(T)}

LabelsSeen(T, k) ==
    {type_name(l.obj.fields[k]) : l \in {m \in LinesOfType(T) : k \in DOMAIN m.obj.fields}}

C10_TopLevelFields ==
    /\ DOMAIN top_keys_by_type = {T \in EntryTypesRead : FieldsOfType(T) # {}}
    /\ \A T \in DOMAIN top_keys_by_type :
           /\ DOMAIN top_keys_by_type[T] = FieldsOfType(T)
           /\ \A k \in DOMAIN top_keys_by_type[T] :
                  /\ top_keys_by_type[T][k] = LabelsSeen(T, k)
                  /\ top_keys_by_type[T][k] # {}
    /\ pc = "done" =>
           \A T \in ReportTypes :
               LET fields == ReportEntry(T)["top_level_fields"]
               IN /\ {fields[i][1] : i \in 1..Len(fields)} = DOMAIN top_keys_by_type[T]
                  /\ \A i \in 1..Len(fields) :
                         /\ IsSortedList(fields[i][2])
                         /\ Range(fields[i][2]) = top_keys_by_type[T][fields[i][1]]

(* x of type "a" was seen as 1 and as "s": the report lists int, string *)
C10_Witness ==
    /\ pc = "done"
    /\ "a" \in ReportTypes
    /\ ReportEntry("a")["occurrences"] = 2
    /\ ReportEntry("a")["top_level_fields"] =
           <<<<"type", <<"string">>>>, <<"x", <<"int", "string">>>>>>

====
